---- MODULE Spec2Model ----
(***************************************************************************)
(* update-service: an authenticated HTTP webhook that pulls a container    *)
(* image and restarts a compose service (main.ts), with the request dump   *)
(* used by the unauthorized branch (utils.ts, getRequestInfo).             *)
(*                                                                         *)
(* The handler is an async function: it runs from one await to the next    *)
(* without interruption, and handlers of different requests interleave at  *)
(* their awaits.  Each action below is one such run of the handler.        *)
(***************************************************************************)
EXTENDS Integers, Sequences, FiniteSets, TLC

\* Number of requests the listener handles (concurrently) in one behaviour.
NumRequests == 2

Reqs == 1..NumRequests

VARIABLES
    AUTH_KEY,           \* main.ts:8
    ACCEPTED_SERVICES,  \* main.ts:17-20
    ACCEPTED_TAGS,      \* main.ts:21
    logFile,            \* the appends issued to LOG_FILE, in issue order
    pc,                 \* per request: the await the handler is suspended at
    req,                \* per request: the Request object received
    cmds,               \* per request: the external commands spawned, in order
    response            \* per request: the Response sent

vars == <<AUTH_KEY, ACCEPTED_SERVICES, ACCEPTED_TAGS, logFile, pc, req, cmds, response>>

(***************************************************************************)
(* Values                                                                  *)
(***************************************************************************)
NoHeader   == "<null>"        \* req.headers.get(...) of an absent header
Undefined  == "<undefined>"   \* JS undefined
NoRequest  == [path |-> "<none>"]
NoResponse == [status |-> 0, text |-> "<pending>"]

\* Exit codes a finished command reports (imageStatus.code, composeStatus.code).
ExitCodes == {0, 1}

\* A spawned command: its state is "running", "exited" (with its exit code) or
\* "spawnfailed" (spawn() raised, the program never ran).
Cmd(name, state, code) == [name |-> name, state |-> state, code |-> code]

\* Entries of ~/projects/services as Deno.readDirSync yields them.
DirEntries ==
    { [name |-> "api",       isDirectory |-> TRUE],
      [name |-> "web",       isDirectory |-> TRUE],
      [name |-> "notes.txt", isDirectory |-> FALSE] }

(***************************************************************************)
(* Request bodies.  A body is absent (req.body is null) or a byte stream   *)
(* of some syntax; a JSON text carries the value JSON.parse yields.        *)
(***************************************************************************)
JNull      == [type |-> "null"]
JNumber    == [type |-> "number"]
JObject(f) == [type |-> "object", fields |-> f]

Obj(s, t)   == JObject([k \in {"service", "tag"} |-> IF k = "service" THEN s ELSE t])
ObjService(s) == JObject([k \in {"service"} |-> s])
ObjTag(t)     == JObject([k \in {"tag"} |-> t])

NoBody          == [present |-> FALSE, syntax |-> "none", value |-> JNull]
JsonBody(v)     == [present |-> TRUE, syntax |-> "json", value |-> v]
MalformedBody   == [present |-> TRUE, syntax |-> "malformed", value |-> JNull]
MultipartBody   == [present |-> TRUE, syntax |-> "multipart", value |-> JNull]

JsonValues ==
    { JNull, JNumber,
      Obj("api", "main"), Obj("api", "release"), Obj("api", "dev"),
      Obj("notes.txt", "main"), Obj("notes.txt", "dev"),
      Obj("", "main"), Obj("api", ""),
      ObjService("api"), ObjTag("main") }

Bodies == {NoBody, MalformedBody, MultipartBody} \cup {JsonBody(v) : v \in JsonValues}

Paths        == {"/health", "/update"}
AuthHeaders  == {NoHeader, "wrong", "secret"}
ContentTypes == {"application/json", "application/x-www-form-urlencoded",
                 "multipart/form-data", ""}

Request(p, a, m, c, b) ==
    [path |-> p, auth |-> a, method |-> m, contentType |-> c, body |-> b]

\* The requests drawn as input.  A GET request carries no body.  The content
\* type is read only by getRequestInfo, i.e. for requests that fail the
\* Authorization comparison: those are drawn with every content type and a
\* sample of bodies, the ones that pass it with every body.
Requests ==
    { Request(p, a, "GET", "", NoBody) : p \in Paths, a \in AuthHeaders }
    \cup { Request("/health", a, "POST", "application/json", MalformedBody) :
             a \in AuthHeaders }
    \cup { Request("/update", NoHeader, "POST", c, b) :
             c \in ContentTypes,
             b \in {NoBody, MalformedBody, MultipartBody, JsonBody(Obj("api", "main"))} }
    \cup { Request("/update", "wrong", "POST", "application/json", b) :
             b \in {NoBody, MalformedBody, JsonBody(JNull), JsonBody(Obj("api", "main"))} }
    \cup { Request("/update", "secret", "POST", "application/json", b) : b \in Bodies }
    \cup { Request("/update", "secret", "POST", "", JsonBody(Obj("api", "main"))) }

(***************************************************************************)
(* Runtime functions the handler calls                                     *)
(***************************************************************************)
\* request.json(): JSON.parse of the body bytes; raises on an absent (empty)
\* body and on bytes that are no JSON text.
JsonParses(b) == b.present /\ b.syntax = "json"

\* request.formData(): a urlencoded body always decodes (an absent one to an
\* empty form); a multipart body must be well-formed multipart.
FormDataParses(c, b) ==
    IF c = "multipart/form-data" THEN b.present /\ b.syntax = "multipart" ELSE TRUE

\* body.<key> of a parsed JSON value that is not null: the field of an object,
\* undefined for a missing field and for a number.
Get(v, k) ==
    IF v.type = "object" /\ k \in DOMAIN v.fields THEN v.fields[k] ELSE Undefined

\* JS truthiness of a string-or-undefined value.
Truthy(x) == x # Undefined /\ x # ""

\* Deno.writeTextFile(LOG_FILE, entry, { append }).
WriteTextFile(file, entry, append) ==
    IF append THEN Append(file, entry) ELSE <<entry>>

\* The response Deno.serve sends when the handler's promise rejects (no
\* onError is passed at main.ts:23).
InternalServerError == [status |-> 500, text |-> "Internal Server Error"]

Response(text, status) == [status |-> status, text |-> text]

(***************************************************************************)
(* The handler's conditions                                                *)
(***************************************************************************)
\* Variant: the whole URL, not its pathname, is compared with "/health".
IsHealthCheckFullUrl(q) == q.path = "http://host/health"

\* main.ts:26
IsHealthCheck(q) == q.path = "/health"

\* Variant: a request that carries no Authorization header is let through.
AuthorizedNullKey(q) == q.auth = AUTH_KEY \/ q.auth = NoHeader

\* main.ts:31 (negated)
Authorized(q) == q.auth = AUTH_KEY

\* main.ts:38 (negated)
HasBody(q) == q.body.present

\* main.ts:52 (negated); evaluated on a non-null parsed body
HasFields(v) == Truthy(Get(v, "service")) /\ Truthy(Get(v, "tag"))

\* main.ts:58 (negated)
ServiceAccepted(v) == Get(v, "service") \in ACCEPTED_SERVICES

\* Variant: the tag is checked for presence only, so any truthy tag passes.
TagAcceptedAny(v) == Truthy(Get(v, "tag"))

\* main.ts:63 (negated)
TagAccepted(v) == Get(v, "tag") \in ACCEPTED_TAGS

\* Variant: the pull's exit code is not checked.
PullSucceededUnchecked(code) == code \in ExitCodes

\* main.ts:73 (negated)
PullSucceeded(code) == code = 0

\* Variant: the restart's exit code is not checked.
RestartSucceededUnchecked(code) == code \in ExitCodes

\* main.ts:83 (negated)
RestartSucceeded(code) == code = 0

\* utils.ts getRequestInfo: whether the awaited body decoding raises, which
\* the catch at lines 64-67 rethrows.
GetRequestInfoThrows(q) ==
    /\ q.method # "GET" /\ q.method # "HEAD"
    /\ IF q.contentType = "application/json" THEN ~JsonParses(q.body)
       ELSE IF q.contentType = "application/x-www-form-urlencoded"
            THEN ~FormDataParses(q.contentType, q.body)
       ELSE IF q.contentType = "multipart/form-data"
            THEN ~FormDataParses(q.contentType, q.body)
       ELSE FALSE

(***************************************************************************)
(* State changes shared by the actions                                     *)
(***************************************************************************)
\* return new Response(...)
Respond(r, resp) ==
    /\ response' = [response EXCEPT ![r] = resp]
    /\ pc' = [pc EXCEPT ![r] = "done"]

\* Deno.writeTextFile(LOG_FILE, ..., { append: true }); return new Response(...)
LogAndRespond(r, msg, resp) ==
    /\ logFile' = WriteTextFile(logFile, [req |-> r, msg |-> msg], TRUE)
    /\ Respond(r, resp)

\* The handler raises: nothing is logged, Deno.serve answers.
Throw(r) ==
    /\ Respond(r, InternalServerError)
    /\ UNCHANGED logFile

\* new Deno.Command(...).spawn() after the commands in `spawned`: the program
\* starts, or spawn() raises.
Spawn(r, spawned, name, started, next) ==
    IF started
    THEN /\ cmds' = [cmds EXCEPT ![r] = Append(spawned, Cmd(name, "running", 0))]
         /\ pc' = [pc EXCEPT ![r] = next]
         /\ UNCHANGED <<logFile, response>>
    ELSE /\ cmds' = [cmds EXCEPT ![r] = Append(spawned, Cmd(name, "spawnfailed", 0))]
         /\ Throw(r)

\* await ....output(): the running command (the last one spawned) exits.
Exited(r, code) ==
    [cmds[r] EXCEPT ![Len(cmds[r])] = Cmd(@.name, "exited", code)]

(***************************************************************************)
(* Startup (main.ts:5-21)                                                  *)
(***************************************************************************)
ServicesFromDir ==
    { d.name : d \in { e \in DirEntries : e.isDirectory } }

Init ==
    /\ AUTH_KEY = "secret"
    /\ ACCEPTED_SERVICES = ServicesFromDir
    /\ ACCEPTED_TAGS = {"release", "main"}
    /\ logFile = <<>>
    /\ pc = [r \in Reqs |-> "idle"]
    /\ req = [r \in Reqs |-> NoRequest]
    /\ cmds = [r \in Reqs |-> <<>>]
    /\ response = [r \in Reqs |-> NoResponse]

Startup == <<AUTH_KEY, ACCEPTED_SERVICES, ACCEPTED_TAGS>>

(***************************************************************************)
(* The handler (main.ts:23-91), one action per run between awaits          *)
(***************************************************************************)
\* main.ts:24-45: from the arrival of request q to the first await.
Receive(r, q) ==
    /\ pc[r] = "idle"
    /\ req' = [req EXCEPT ![r] = q]
    /\ UNCHANGED <<Startup, cmds>>
    /\ IF IsHealthCheck(q)
       THEN Respond(r, Response("OK", 200)) /\ UNCHANGED logFile
       ELSE IF ~Authorized(q)
       THEN \* await getRequestInfo(req)
            /\ pc' = [pc EXCEPT ![r] = "getRequestInfo"]
            /\ UNCHANGED <<logFile, response>>
       ELSE IF ~HasBody(q)
       THEN LogAndRespond(r, "Missing request body (400)",
                          Response("Need JSON body", 400))
       ELSE \* await req.json()
            /\ pc' = [pc EXCEPT ![r] = "json"]
            /\ UNCHANGED <<logFile, response>>

\* main.ts:32-34: getRequestInfo settles.
Unauthorized(r) ==
    /\ pc[r] = "getRequestInfo"
    /\ UNCHANGED <<Startup, req, cmds>>
    /\ IF GetRequestInfoThrows(req[r])
       THEN Throw(r)
       ELSE LogAndRespond(r, "Unauthorized request (404)",
                          Response("Not found", 404))

\* main.ts:45-72: req.json() settles; the field and allow-list checks; the
\* image pull is created and spawned.
Validate(r) ==
    /\ pc[r] = "json"
    /\ UNCHANGED <<Startup, req>>
    /\ LET b == req[r].body
           body == b.value
       IN IF ~JsonParses(b)
          THEN /\ LogAndRespond(r, "Invalid JSON body (400)",
                                Response("Invalid JSON body", 400))
               /\ UNCHANGED cmds
          ELSE IF body = JNull
          THEN \* body.service of null raises a TypeError
               Throw(r) /\ UNCHANGED cmds
          ELSE IF ~HasFields(body)
          THEN /\ LogAndRespond(r, "Missing required fields (400)",
                                Response("Missing service or tag in body", 400))
               /\ UNCHANGED cmds
          ELSE IF ~ServiceAccepted(body)
          THEN /\ LogAndRespond(r, "Invalid service requested (400)",
                                Response("Service must be one of", 400))
               /\ UNCHANGED cmds
          ELSE IF ~TagAccepted(body)
          THEN /\ LogAndRespond(r, "Invalid tag requested (400)",
                                Response("Tag must be one of", 400))
               /\ UNCHANGED cmds
          ELSE \E started \in BOOLEAN : Spawn(r, cmds[r], "pull", started, "pull")

\* main.ts:72-82: the image pull exits; on exit code 0 the compose restart is
\* created and spawned.  spawn() is called without piping stderr, so reading
\* imageStatus.stderr yields the bytes or raises.
PullDone(r, code) ==
    /\ pc[r] = "pull"
    /\ UNCHANGED <<Startup, req>>
    /\ IF ~PullSucceeded(code)
       THEN /\ cmds' = [cmds EXCEPT ![r] = Exited(r, code)]
            /\ \E stderrRead \in BOOLEAN :
                  IF stderrRead
                  THEN LogAndRespond(r, "Docker pull failed (500)",
                                     Response("Docker pull failed", 500))
                  ELSE Throw(r)
       ELSE \E started \in BOOLEAN :
               Spawn(r, Exited(r, code), "restart", started, "restart")

\* main.ts:82-90: the compose restart exits.
RestartDone(r, code) ==
    /\ pc[r] = "restart"
    /\ UNCHANGED <<Startup, req>>
    /\ cmds' = [cmds EXCEPT ![r] = Exited(r, code)]
    /\ IF ~RestartSucceeded(code)
       THEN \E stderrRead \in BOOLEAN :
               IF stderrRead
               THEN LogAndRespond(r, "Docker compose restart failed (500)",
                                  Response("Docker compose restart failed", 500))
               ELSE Throw(r)
       ELSE Respond(r, Response("Success", 200)) /\ UNCHANGED logFile

Next ==
    \/ \E r \in Reqs, q \in Requests : Receive(r, q)
    \/ \E r \in Reqs : Unauthorized(r)
    \/ \E r \in Reqs : Validate(r)
    \/ \E r \in Reqs, code \in ExitCodes : PullDone(r, code)
    \/ \E r \in Reqs, code \in ExitCodes : RestartDone(r, code)

Spec == Init /\ [][Next]_vars

(***************************************************************************)
(* Vocabulary of the properties                                            *)
(***************************************************************************)
Received(r) == pc[r] # "idle"
Answered(r) == pc[r] = "done"
NonHealth(r) == req[r].path # "/health"

\* The commands of request r named `name`.
Invocations(r, name) == { i \in DOMAIN cmds[r] : cmds[r][i].name = name }
Invoked(r, name) == Invocations(r, name) # {}
FinishedWith(r, name, codes) ==
    \E i \in Invocations(r, name) :
        cmds[r][i].state = "exited" /\ cmds[r][i].code \in codes

\* The log entries request r issued.
LogEntries(r) == { i \in DOMAIN logFile : logFile[i].req = r }

PresentedKey(r) == req[r].auth = "secret"
ServiceField(r) == Get(req[r].body.value, "service")
TagField(r) == Get(req[r].body.value, "tag")
ParsesAsJson(r) == req[r].body.present /\ req[r].body.syntax = "json"

\* The request passes every validation check of the handler.
ValidInput(r) ==
    /\ ParsesAsJson(r)
    /\ ServiceField(r) \in ACCEPTED_SERVICES
    /\ TagField(r) \in {"release", "main"}

(***************************************************************************)
(* Properties                                                              *)
(***************************************************************************)

\* C1: an external command (image pull or compose restart) has been invoked
\* for a request only if its Authorization header equals AUTH_KEY, its
\* body.service is in ACCEPTED_SERVICES and its body.tag is "release" or "main".
C1_CommandsOnlyForValidRequests ==
    \A r \in Reqs :
        cmds[r] # <<>> =>
            /\ req[r].auth = AUTH_KEY
            /\ ServiceField(r) \in ACCEPTED_SERVICES
            /\ TagField(r) \in {"release", "main"}

C1_Witness ==
    \E r \in Reqs : Invoked(r, "pull") /\ Invoked(r, "restart") /\ Answered(r)

\* C2: every request whose path is not /health and whose Authorization header
\* is absent or differs from AUTH_KEY is answered with status 404, whatever its
\* method, content type and body, and no external command is invoked for it.
C2_UnauthorizedIs404 ==
    \A r \in Reqs :
        (Answered(r) /\ NonHealth(r) /\ req[r].auth # AUTH_KEY) =>
            response[r].status = 404 /\ cmds[r] = <<>>

\* C3: every authenticated non-health request with malformed or invalid input
\* (body absent, body not valid JSON, no truthy service or tag in the parsed
\* value of any JSON type, service or tag outside its allow-list) is answered
\* with status 400 and invokes no external command.
C3_InvalidInputIs400 ==
    \A r \in Reqs :
        (Answered(r) /\ NonHealth(r) /\ req[r].auth = AUTH_KEY /\ ~ValidInput(r)) =>
            response[r].status = 400 /\ cmds[r] = <<>>

\* C4: within one request the commands run sequentially and at most once each:
\* the commands invoked are the pull, or the pull and then the restart, and the
\* restart is invoked only after the pull has finished with exit code 0.
C4_PullThenRestartOnce ==
    \A r \in Reqs :
        /\ Len(cmds[r]) <= 2
        /\ Len(cmds[r]) >= 1 => cmds[r][1].name = "pull"
        /\ Len(cmds[r]) = 2 =>
              /\ cmds[r][2].name = "restart"
              /\ cmds[r][1].state = "exited" /\ cmds[r][1].code = 0

C4_Witness ==
    \E r \in Reqs : Len(cmds[r]) = 2 /\ cmds[r][2].state = "exited" /\ Answered(r)

\* C5: a failed external command yields status 500: after a pull that finished
\* with a non-zero exit code the restart is never invoked and the response is
\* 500; after a pull that exited 0 and a restart that finished with a non-zero
\* exit code the response is 500.
C5_FailedCommandIs500 ==
    \A r \in Reqs :
        /\ FinishedWith(r, "pull", ExitCodes \ {0}) =>
              /\ ~Invoked(r, "restart")
              /\ Answered(r) /\ response[r].status = 500
        /\ (FinishedWith(r, "pull", {0}) /\ FinishedWith(r, "restart", ExitCodes \ {0})) =>
              Answered(r) /\ response[r].status = 500

C5_Witness ==
    /\ \E r \in Reqs : FinishedWith(r, "pull", {1}) /\ Answered(r)
    /\ \E r \in Reqs : FinishedWith(r, "restart", {1}) /\ Answered(r)

\* C6: a non-health request is answered with status 200 if and only if it
\* passed authentication and all validation checks and both its image pull and
\* its compose restart finished with exit code 0.
C6_SuccessIffAllPassed ==
    \A r \in Reqs :
        (Answered(r) /\ NonHealth(r)) =>
            (response[r].status = 200 <=>
                /\ req[r].auth = AUTH_KEY
                /\ ValidInput(r)
                /\ FinishedWith(r, "pull", {0})
                /\ FinishedWith(r, "restart", {0}))

C6_Witness ==
    \E r \in Reqs :
        Answered(r) /\ NonHealth(r) /\ response[r] = Response("Success", 200)

\* C7: a request whose path is exactly /health is answered with status 200
\* before any other check, whatever its Authorization header and body; no log
\* entry is written and no external command is invoked.
C7_HealthCheckFirst ==
    \A r \in Reqs :
        (Received(r) /\ req[r].path = "/health") =>
            /\ Answered(r) /\ response[r].status = 200
            /\ LogEntries(r) = {}
            /\ cmds[r] = <<>>

C7_Witness ==
    \E r \in Reqs :
        /\ Answered(r) /\ req[r].path = "/health"
        /\ req[r].auth # AUTH_KEY /\ req[r].body = MalformedBody

\* C8: every request answered with 400, 404 or 500 has issued exactly one
\* append of a log entry, and every request answered with 200 none.
C8_FailuresLoggedOnce ==
    \A r \in Reqs :
        Answered(r) =>
            /\ response[r].status \in {400, 404, 500} => Cardinality(LogEntries(r)) = 1
            /\ response[r].status = 200 => LogEntries(r) = {}

\* C9: the checks are applied in the order health check, authentication, body
\* presence, JSON parse, field presence, service allow-list, tag allow-list,
\* and the first check that fails alone determines the response.
FirstFailure(r) ==
    IF req[r].auth # AUTH_KEY THEN Response("Not found", 404)
    ELSE IF ~req[r].body.present THEN Response("Need JSON body", 400)
    ELSE IF ~ParsesAsJson(r) THEN Response("Invalid JSON body", 400)
    ELSE IF ~(Truthy(ServiceField(r)) /\ Truthy(TagField(r)))
         THEN Response("Missing service or tag in body", 400)
    ELSE IF ServiceField(r) \notin ACCEPTED_SERVICES
         THEN Response("Service must be one of", 400)
    ELSE Response("Tag must be one of", 400)

C9_FirstFailingCheckDecides ==
    \A r \in Reqs :
        (Answered(r) /\ NonHealth(r) /\ ~(req[r].auth = AUTH_KEY /\ ValidInput(r))) =>
            response[r] = FirstFailure(r)

\* C10: handling requests leaves AUTH_KEY, ACCEPTED_SERVICES and ACCEPTED_TAGS
\* as they were at startup, and the response to a request is determined solely
\* by its path, Authorization header and body and by the outcome of its own
\* external commands: two requests that agree on these get the same status.
C10_ResponseDeterminedByRequest ==
    /\ AUTH_KEY = "secret"
    /\ ACCEPTED_SERVICES = {"api", "web"}
    /\ ACCEPTED_TAGS = {"release", "main"}
    /\ \A r1, r2 \in Reqs :
          ( /\ Answered(r1) /\ Answered(r2)
            /\ req[r1].path = req[r2].path
            /\ req[r1].auth = req[r2].auth
            /\ req[r1].body = req[r2].body
            /\ cmds[r1] = cmds[r2] ) =>
              response[r1].status = response[r2].status

====
